---- MODULE Spec2Model ----
(***************************************************************************)
(* DroneWave gesture-control shell (src/infer.py).                          *)
(*                                                                         *)
(* The model follows class DroneCLI: the start-up handshake of             *)
(* connect_drone, the two shell commands do_detect / do_exit, and the      *)
(* coroutine handle_detection with its reduction loop, its JSON report,    *)
(* its dispatch on the top class and the takeoff / land call sequences.    *)
(*                                                                         *)
(* Strings are sequences of one-character strings so that str.strip,       *)
(* str.lower and the substring test `in` are computed, not assumed.        *)
(* Confidences are counted in thousandths; the values used are multiples   *)
(* of 1/8, which binary floating point holds exactly, so that round(x, 2)  *)
(* is the round-half-to-even of the decimal value.  Bounding boxes are     *)
(* carried through the report untouched by any decision and are left out.  *)
(*                                                                         *)
(* Every awaited call of the detection model or of the vehicle link        *)
(* either returns or raises; nothing in infer.py catches an exception, so  *)
(* a raise unwinds do_detect and cmdloop and ends the process.  The two    *)
(* telemetry subscriptions read at start-up are endless feeds: each read   *)
(* yields one more sample.                                                 *)
(***************************************************************************)
EXTENDS Integers, Sequences, FiniteSets, TLC

\* ------------------------------------------------------------ bounds
MaxDet == 2            \* detections returned by one model call
MaxConfEighths == 2    \* confidences range over 0/8 .. MaxConfEighths/8
MaxCmds == 2           \* shell commands read in one run

\* ------------------------------------------------------------ program constants
TakeoffAltitude == 10
PauseSeconds == 10

\* ------------------------------------------------------------ strings
UpperCase == <<"A","B","C","D","E","F","G","H","I","J","K","L","M",
               "N","O","P","Q","R","S","T","U","V","W","X","Y","Z">>
LowerCase == <<"a","b","c","d","e","f","g","h","i","j","k","l","m",
               "n","o","p","q","r","s","t","u","v","w","x","y","z">>
Whitespace == {" ", "\t", "\n"}

LowerChar(c) ==
    IF \E k \in 1..Len(UpperCase) : UpperCase[k] = c
    THEN LowerCase[CHOOSE k \in 1..Len(UpperCase) : UpperCase[k] = c]
    ELSE c

\* str.lower()
Lower(s) == [k \in 1..Len(s) |-> LowerChar(s[k])]

\* the substring test  sub in s
Contains(sub, s) ==
    \E k \in 1..(Len(s) - Len(sub) + 1) : SubSeq(s, k, k + Len(sub) - 1) = sub

RECURSIVE LStrip(_)
LStrip(s) == IF s # <<>> /\ Head(s) \in Whitespace THEN LStrip(Tail(s)) ELSE s

RECURSIVE RStrip(_)
RStrip(s) ==
    IF s # <<>> /\ s[Len(s)] \in Whitespace THEN RStrip(SubSeq(s, 1, Len(s) - 1)) ELSE s

\* variant: the argument is used as typed
StripNothing(s) == s

\* str.strip()
Strip(s) == RStrip(LStrip(s))

TAKEOFF == <<"t","a","k","e","o","f","f">>
LAND == <<"l","a","n","d">>

\* ------------------------------------------------------------ inputs
\* class names the model can be trained with (result.names)
Names == { <<>>,
           <<"T","a","k","e","O","f","f">>,
           <<"T","A","K","E","O","F","F">>,
           <<"l","a","n","d">>,
           <<"L","a","n","d","T","a","k","e","o","f","f">>,
           <<"I","s","L","A","N","D">>,
           <<"h","o","v","e","r">> }

\* confidences, in thousandths
Confidences == { 125 * k : k \in 0..MaxConfEighths }

Detection == [class : Names, confidence : Confidences]

\* what one call self.model(image_path) can return in result.boxes
ModelOutputs == UNION { [1..n -> Detection] : n \in 0..MaxDet }

\* what the shell can pass to do_detect as arg
Args == { <<>>, <<" ">>, <<"\t", " ">>, <<" ", "a", " ">> }

\* ------------------------------------------------------------ optional values
None == <<>>
Some(x) == <<x>>

\* Python truth value of an optional string: neither None nor ""
Truthy(opt) == opt # None /\ opt[1] # <<>>

\* ------------------------------------------------------------ state
VARIABLES
    shell,               \* position of the main thread
    startup,             \* progress lines printed by connect_drone
    state,               \* last sample read from core.connection_state()
    health,              \* last sample read from telemetry.health()
    nCmds,               \* commands read by cmdloop so far
    lastCmd,             \* the command being / last processed
    pc,                  \* position of the handle_detection coroutine
    image_path,
    results,             \* boxes returned by the model
    i,                   \* position of the for loop in results
    detections,
    highest_confidence,
    top_class,
    report,              \* the JSON document printed, if any
    command,             \* the branch taken at the dispatch
    trace,               \* prints and external calls of the current command
    exc                  \* the call whose exception ended the process, if any

vars == << shell, startup, state, health, nCmds, lastCmd, pc, image_path, results,
           i, detections, highest_confidence, top_class, report, command, trace, exc >>

startVars == << startup, state, health >>
locals == << image_path, results, i, detections, highest_confidence, top_class,
             report, command >>

Ev(op, arg) == [op |-> op, arg |-> arg]

\* ------------------------------------------------------------ rounding
\* round(x, 2) for x in thousandths, result in hundredths (half to even)
Round2(x) ==
    LET q == x \div 10
        r == x % 10
    IN  IF r < 5 THEN q
        ELSE IF r > 5 THEN q + 1
        ELSE IF q % 2 = 0 THEN q ELSE q + 1

\* ------------------------------------------------------------ the reduction
\* variant: a tie replaces the running top (>= for >)
BetterOrEqual(confidence, highest) == confidence >= highest

\* variant: every detection replaces the running top
BetterAlways(confidence, highest) == TRUE

\* the test that lets a detection replace the running top
Better(confidence, highest) == confidence > highest

\* one pass of the loop body over detection d
ReduceStep(acc, d) ==
    [ detections |-> Append(acc.detections,
                            [class |-> d.class, confidence |-> Round2(d.confidence)]),
      highest_confidence |-> IF Better(d.confidence, acc.highest_confidence)
                             THEN d.confidence ELSE acc.highest_confidence,
      top_class |-> IF Better(d.confidence, acc.highest_confidence)
                    THEN Some(d.class) ELSE acc.top_class ]

\* variant: the running maximum starts below every confidence
ReduceInitBelowZero ==
    [ detections |-> <<>>, highest_confidence |-> 0 - 1, top_class |-> None ]

\* the locals before the loop: the running top starts at (0, None)
ReduceInit ==
    [ detections |-> <<>>, highest_confidence |-> 0, top_class |-> None ]

\* the whole loop over a list of boxes
RECURSIVE Reduce(_)
Reduce(boxes) ==
    IF boxes = <<>> THEN ReduceInit
    ELSE ReduceStep(Reduce(SubSeq(boxes, 1, Len(boxes) - 1)), boxes[Len(boxes)])

\* the document given to json.dumps
MakeReport(path, dets, cls, conf) ==
    [ image |-> path, detections |-> dets,
      top_detection |-> [class |-> cls, confidence |-> Round2(conf)] ]

\* ------------------------------------------------------------ the dispatch
\* variant: the two substring tests in the other order
DispatchLandFirst(cls) ==
    IF ~Truthy(cls) THEN "None"
    ELSE IF Contains(LAND, Lower(cls[1])) THEN "Land"
    ELSE IF Contains(TAKEOFF, Lower(cls[1])) THEN "Takeoff"
    ELSE "None"

\* the branch taken on top_class
Dispatch(cls) ==
    IF ~Truthy(cls) THEN "None"
    ELSE IF Contains(TAKEOFF, Lower(cls[1])) THEN "Takeoff"
    ELSE IF Contains(LAND, Lower(cls[1])) THEN "Land"
    ELSE "None"

\* ------------------------------------------------------------ initial state
Init ==
    /\ shell = "start"
    /\ startup = <<>>
    /\ state = None
    /\ health = None
    /\ nCmds = 0
    /\ lastCmd = None
    /\ pc = "idle"
    /\ image_path = <<>>
    /\ results = <<>>
    /\ i = 1
    /\ detections = ReduceInit.detections
    /\ highest_confidence = ReduceInit.highest_confidence
    /\ top_class = ReduceInit.top_class
    /\ report = None
    /\ command = "None"
    /\ trace = <<>>
    /\ exc = "none"

\* an uncaught exception raised by call op: the coroutine, do_detect and
\* cmdloop all unwind
Raise(op) ==
    /\ exc' = op
    /\ pc' = IF pc = "idle" THEN "idle" ELSE "raised"
    /\ shell' = "crashed"

\* ------------------------------------------------------------ start-up
\* await self.drone.connect(...)
Connect ==
    /\ shell = "start"
    /\ startup' = <<"connecting">>
    /\ \E ok \in BOOLEAN :
         IF ok THEN shell' = "wait_connection" /\ UNCHANGED << exc, pc >>
         ELSE Raise("connect")
    /\ UNCHANGED << state, health, nCmds, lastCmd, locals, trace >>

\* one sample of core.connection_state()
ConnectionState ==
    /\ shell = "wait_connection"
    /\ \E is_connected \in BOOLEAN :
         /\ state' = Some([is_connected |-> is_connected])
         /\ IF is_connected
            THEN shell' = "wait_health" /\ startup' = Append(startup, "connected")
            ELSE UNCHANGED << shell, startup >>
    /\ UNCHANGED << health, nCmds, lastCmd, pc, locals, trace, exc >>

\* variant: one of the two locks is enough
PositionLockEither(h) == h.is_global_position_ok \/ h.is_home_position_ok

\* the test on a health sample
PositionLock(h) == h.is_global_position_ok /\ h.is_home_position_ok

\* one sample of telemetry.health()
Health ==
    /\ shell = "wait_health"
    /\ \E gp \in BOOLEAN, hp \in BOOLEAN :
         LET h == [is_global_position_ok |-> gp, is_home_position_ok |-> hp]
         IN  /\ health' = Some(h)
             /\ IF PositionLock(h)
                THEN shell' = "prompt" /\ startup' = Append(startup, "position_lock")
                ELSE UNCHANGED << shell, startup >>
    /\ UNCHANGED << state, nCmds, lastCmd, pc, locals, trace, exc >>

\* ------------------------------------------------------------ the shell
\* variant: the coroutine is scheduled and the shell goes back to its prompt
RunDetached == "prompt"

\* where the main thread is while loop.run_until_complete runs the coroutine
RunUntilComplete == "running"

\* the command  detect <arg>
DoDetect ==
    /\ shell = "prompt"
    /\ nCmds < MaxCmds
    /\ \E arg \in Args :
         /\ lastCmd' = Some([name |-> "detect", arg |-> arg])
         /\ image_path' = Strip(arg)
         /\ IF Strip(arg) = <<>>
            THEN /\ trace' = << Ev("print_provide_path", 0) >>
                 /\ UNCHANGED << shell, pc >>
            ELSE /\ trace' = <<>>
                 /\ shell' = RunUntilComplete
                 /\ pc' = "model"
    /\ nCmds' = nCmds + 1
    /\ results' = <<>>
    /\ i' = 1
    /\ detections' = ReduceInit.detections
    /\ highest_confidence' = ReduceInit.highest_confidence
    /\ top_class' = ReduceInit.top_class
    /\ report' = None
    /\ command' = "None"
    /\ UNCHANGED << startVars, exc >>

\* the command  exit
DoExit ==
    /\ shell = "prompt"
    /\ nCmds < MaxCmds
    /\ lastCmd' = Some([name |-> "exit", arg |-> <<>>])
    /\ nCmds' = nCmds + 1
    /\ trace' = << Ev("print_exiting", 0) >>
    /\ shell' = "exited"
    /\ UNCHANGED << startVars, pc, locals, exc >>

\* ------------------------------------------------------------ handle_detection
\* results = self.model(image_path)
RunModel ==
    /\ pc = "model"
    /\ trace' = Append(trace, Ev("model", 0))
    /\ \/ \E boxes \in ModelOutputs :
            /\ results' = boxes
            /\ pc' = "loop"
            /\ UNCHANGED << shell, exc >>
       \/ Raise("model") /\ UNCHANGED results
    /\ UNCHANGED << startVars, nCmds, lastCmd, image_path, i, detections,
                    highest_confidence, top_class, report, command >>

\* one iteration of the for loop
LoopStep ==
    /\ pc = "loop"
    /\ i <= Len(results)
    /\ LET acc == ReduceStep([ detections |-> detections,
                               highest_confidence |-> highest_confidence,
                               top_class |-> top_class ], results[i])
       IN  /\ detections' = acc.detections
           /\ highest_confidence' = acc.highest_confidence
           /\ top_class' = acc.top_class
    /\ i' = i + 1
    /\ UNCHANGED << shell, startVars, nCmds, lastCmd, pc, image_path, results,
                    report, command, trace, exc >>

\* variant: the loop is followed by the dispatch, nothing is printed first
PrintReportSkipped ==
    /\ pc = "loop"
    /\ i > Len(results)
    /\ pc' = "dispatch"
    /\ UNCHANGED << shell, startVars, nCmds, lastCmd, locals, trace, exc >>

\* print(json.dumps(...)) once the loop is over
PrintReport ==
    /\ pc = "loop"
    /\ i > Len(results)
    /\ report' = Some(MakeReport(image_path, detections, top_class, highest_confidence))
    /\ trace' = Append(trace, Ev("report", 0))
    /\ pc' = "dispatch"
    /\ UNCHANGED << shell, startVars, nCmds, lastCmd, image_path, results, i,
                    detections, highest_confidence, top_class, command, exc >>

\* the if / elif on top_class
Branch ==
    /\ pc = "dispatch"
    /\ command' = Dispatch(top_class)
    /\ pc' = CASE Dispatch(top_class) = "Takeoff" -> "arm"
               [] Dispatch(top_class) = "Land" -> "land"
               [] OTHER -> "return"
    /\ UNCHANGED << shell, startVars, nCmds, lastCmd, image_path, results, i,
                    detections, highest_confidence, top_class, report, trace, exc >>

\* variant: a failure of the call is noted and the sequence goes on
LinkCallIgnoreFailure(at, op, arg, next) ==
    /\ pc = at
    /\ trace' = Append(trace, Ev(op, arg))
    /\ pc' = next
    /\ \E ok \in BOOLEAN : exc' = IF ok THEN exc ELSE op
    /\ UNCHANGED << shell, startVars, nCmds, lastCmd, locals >>

\* an awaited call on the vehicle link at position at: it returns and the
\* coroutine goes on to next, or it raises
LinkCall(at, op, arg, next) ==
    /\ pc = at
    /\ trace' = Append(trace, Ev(op, arg))
    /\ \E ok \in BOOLEAN :
         IF ok THEN pc' = next /\ UNCHANGED << shell, exc >>
         ELSE Raise(op)
    /\ UNCHANGED << startVars, nCmds, lastCmd, locals >>

\* await asyncio.sleep(10), then the coroutine is over
Pause(at) ==
    /\ pc = at
    /\ trace' = Append(trace, Ev("sleep", PauseSeconds))
    /\ pc' = "return"
    /\ UNCHANGED << shell, startVars, nCmds, lastCmd, locals, exc >>

\* variant: takeoff() right after arm()
AfterArmSkipsAltitude == "takeoff"

\* where takeoff() goes once arm() has returned
AfterArm == "set_takeoff_altitude"

Arm == LinkCall("arm", "arm", 0, AfterArm)

SetTakeoffAltitude ==
    LinkCall("set_takeoff_altitude", "set_takeoff_altitude", TakeoffAltitude, "takeoff")

Takeoff == LinkCall("takeoff", "takeoff", 0, "takeoff_sleep")

TakeoffSleep == Pause("takeoff_sleep")

Land == LinkCall("land", "land", 0, "land_sleep")

LandSleep == Pause("land_sleep")

\* the coroutine is over and run_until_complete hands control back to cmdloop
Return ==
    /\ pc = "return"
    /\ pc' = "idle"
    /\ shell' = "prompt"
    /\ UNCHANGED << startVars, nCmds, lastCmd, locals, trace, exc >>

Next ==
    \/ Connect
    \/ ConnectionState
    \/ Health
    \/ DoDetect
    \/ DoExit
    \/ RunModel
    \/ LoopStep
    \/ PrintReport
    \/ Branch
    \/ Arm
    \/ SetTakeoffAltitude
    \/ Takeoff
    \/ TakeoffSleep
    \/ Land
    \/ LandSleep
    \/ Return

Spec == Init /\ [][Next]_vars

\* ============================================================ properties
LinkOps == {"arm", "set_takeoff_altitude", "takeoff", "land"}

IsLinkCall(e) == e.op \in LinkOps

\* the vehicle-link calls and pauses of the current command, in order
LinkTrace == SelectSeq(trace, LAMBDA e : e.op \in LinkOps \cup {"sleep"})

NoLinkCall == \A k \in 1..Len(trace) : ~IsLinkCall(trace[k])

Issued(op) == \E k \in 1..Len(trace) : trace[k].op = op

\* the report is out and the branch on top_class has been taken
Dispatched == report # None /\ pc # "dispatch"

\* the largest confidence of a list of boxes, 0 for the empty list
MaxOf(boxes) ==
    IF boxes = <<>> THEN 0
    ELSE CHOOSE m \in { boxes[k].confidence : k \in 1..Len(boxes) } :
             \A k \in 1..Len(boxes) : boxes[k].confidence <= m

\* the position of the earliest box having the largest confidence
FirstMax(boxes) ==
    CHOOSE k \in 1..Len(boxes) :
        /\ boxes[k].confidence = MaxOf(boxes)
        /\ \A j \in 1..(k - 1) : boxes[j].confidence < MaxOf(boxes)

\* the boxes the loop has been through
Seen == SubSeq(results, 1, i - 1)

LoopOver == i > Len(results)

\* ------------------------------------------------------------ C1
\* C1: the command chosen from top_class is None for a null top_class,
\* Takeoff when the lower-cased label contains "takeoff" (also when it
\* contains "land" too), else Land when it contains "land", else None with
\* no vehicle-link call; labels that differ only in letter case get the
\* same command.
C1_DispatchByLabel ==
    Dispatched =>
        LET low == IF top_class = None THEN <<>> ELSE Lower(top_class[1])
        IN  /\ top_class = None => command = "None"
            /\ (top_class # None /\ Contains(TAKEOFF, low)) => command = "Takeoff"
            /\ (top_class # None /\ ~Contains(TAKEOFF, low) /\ Contains(LAND, low))
                   => command = "Land"
            /\ (top_class # None /\ ~Contains(TAKEOFF, low) /\ ~Contains(LAND, low))
                   => command = "None"
            /\ command = "None" => NoLinkCall
            /\ command = "Takeoff" => ~Issued("land")
            /\ command = "Land" => ~Issued("arm") /\ ~Issued("takeoff")
            /\ \A n \in Names :
                   (top_class # None /\ Lower(n) = low) => Dispatch(Some(n)) = command

\* a label holding both tokens has led to the takeoff call
C1_Witness ==
    /\ Dispatched
    /\ top_class = Some(<<"L","a","n","d","T","a","k","e","o","f","f">>)
    /\ command = "Takeoff"
    /\ Issued("takeoff")

\* ------------------------------------------------------------ C2
\* C2 as stated: the reported top_class is the label of the earliest
\* detection having the maximal confidence, for every non-empty sequence;
\* an empty sequence reports no detections, a null top_class and 0.
C2_AsStated ==
    report # None =>
        /\ results = <<>> =>
               /\ report[1].detections = <<>>
               /\ report[1].top_detection = [class |-> None, confidence |-> 0]
        /\ results # <<>> =>
               report[1].top_detection.class = Some(results[FirstMax(results)].class)

\* the running top after the boxes seen so far
C2_RunningTop ==
    /\ highest_confidence = MaxOf(Seen)
    /\ top_class = IF MaxOf(Seen) > 0 THEN Some(Seen[FirstMax(Seen)].class) ELSE None
    /\ Len(detections) = Len(Seen)
    /\ \A k \in 1..Len(Seen) : detections[k].class = Seen[k].class

C2_ReportedTop ==
    report # None =>
        /\ LoopOver
        /\ report[1].detections = detections
        /\ report[1].top_detection.class = top_class
        /\ report[1].top_detection.confidence = Round2(highest_confidence)
        /\ results = <<>> =>
               /\ report[1].detections = <<>>
               /\ report[1].top_detection = [class |-> None, confidence |-> 0]

\* the running top is replaced only by a strictly greater confidence
C2_StrictReplace ==
    (pc = "loop" /\ i <= Len(results) /\ i' = i + 1) =>
        /\ (results[i].confidence > highest_confidence) =>
               /\ highest_confidence' = results[i].confidence
               /\ top_class' = Some(results[i].class)
        /\ (results[i].confidence <= highest_confidence) =>
               UNCHANGED << highest_confidence, top_class >>

\* C2, amended: the reduction starts from (0, null) and, in input order,
\* replaces the running top only on a strictly greater confidence; the
\* reported top_class is the label of the earliest detection having the
\* maximal confidence when that confidence is above 0, and null when no
\* detection has a confidence above 0; an empty sequence reports no
\* detections, a null top_class and 0.
C2_FirstSeenMaximum ==
    /\ [](C2_RunningTop /\ C2_ReportedTop)
    /\ [][C2_StrictReplace]_vars

\* two boxes tie on the maximum with different labels: the first is reported
C2_Witness ==
    /\ report # None
    /\ Len(results) = 2
    /\ results[1].confidence = results[2].confidence
    /\ results[1].confidence > 0
    /\ results[1].class # results[2].class
    /\ report[1].top_detection.class = Some(results[1].class)

\* ------------------------------------------------------------ C8
Permuted(boxes, f) == [k \in 1..Len(boxes) |-> boxes[f[k]]]

TiedMaximum(boxes) ==
    \E a \in 1..Len(boxes), b \in 1..Len(boxes) :
        /\ boxes[a].confidence = MaxOf(boxes)
        /\ boxes[b].confidence = MaxOf(boxes)
        /\ boxes[a].class # boxes[b].class

\* C8: every permutation of the detection sequence gives the same final
\* top_confidence, the maximum of the confidences or 0 when empty; the
\* top_class of a permutation differs only when two detections with
\* different labels share the maximal confidence.
C8_OrderIndependentConfidence ==
    (LoopOver /\ pc # "model") =>
        /\ highest_confidence = MaxOf(results)
        /\ \A f \in Permutations(1..Len(results)) :
               LET other == Reduce(Permuted(results, f))
               IN  /\ other.highest_confidence = highest_confidence
                   /\ other.top_class # top_class => TiedMaximum(results)

\* a tie on the maximum whose other order reports the other label
C8_Witness ==
    /\ LoopOver
    /\ Len(results) = 2
    /\ results[1].confidence = 250
    /\ results[2].confidence = 250
    /\ Reduce(<< results[2], results[1] >>).top_class # top_class
    /\ Reduce(<< results[2], results[1] >>).highest_confidence = highest_confidence

\* ------------------------------------------------------------ C10
AllZero(boxes) == \A k \in 1..Len(boxes) : boxes[k].confidence = 0

\* C10: the reported top_class is null exactly when no detection has a
\* confidence above 0; a non-empty sequence of confidences 0 reports its
\* detections, a null top_class and confidence 0, and issues no vehicle
\* command whatever its labels.
C10_NullTopWithoutPositiveConfidence ==
    report # None =>
        /\ report[1].top_detection.class = None
               <=> ~(\E k \in 1..Len(results) : results[k].confidence > 0)
        /\ (results # <<>> /\ AllZero(results)) =>
               /\ Len(report[1].detections) = Len(results)
               /\ report[1].top_detection = [class |-> None, confidence |-> 0]
               /\ command = "None"
               /\ NoLinkCall

\* an invocation over boxes of confidence 0, one of them labelled takeoff,
\* has returned without a vehicle-link call
C10_Witness ==
    /\ report # None
    /\ pc = "idle"
    /\ results # <<>>
    /\ AllZero(results)
    /\ \E k \in 1..Len(results) : Contains(TAKEOFF, Lower(results[k].class))
    /\ report[1].top_detection.class = None
    /\ Len(report[1].detections) > 0
    /\ NoLinkCall

\* ------------------------------------------------------------ C3
\* C3: within one detect invocation the JSON report is emitted before any
\* vehicle-link call; no vehicle-link call precedes the report.
C3_ReportBeforeLinkCalls ==
    /\ \A k \in 1..Len(trace) :
           IsLinkCall(trace[k]) => \E j \in 1..(k - 1) : trace[j].op = "report"
    /\ pc \in {"arm", "set_takeoff_altitude", "takeoff", "takeoff_sleep",
               "land", "land_sleep"} => (report # None /\ Issued("report"))

\* the report, then arm
C3_Witness ==
    /\ Len(trace) >= 3
    /\ trace[2].op = "report"
    /\ trace[3].op = "arm"
    /\ report # None

\* ------------------------------------------------------------ C4
\* C4 as stated: when arm() fails, takeoff() is still issued.
C4_AsStated == exc = "arm" => Issued("takeoff")

\* C4, amended: a failure of arm() is an exception nothing catches: it ends
\* the takeoff sequence at arm, so that neither set_takeoff_altitude nor
\* takeoff is issued and no pause is taken, and it ends the command loop.
C4_FailedArmEndsSequence ==
    exc = "arm" =>
        /\ LinkTrace = << Ev("arm", 0) >>
        /\ ~Issued("set_takeoff_altitude")
        /\ ~Issued("takeoff")
        /\ ~Issued("sleep")
        /\ pc = "raised"
        /\ shell = "crashed"

C4_Witness ==
    /\ exc = "arm"
    /\ command = "Takeoff"
    /\ trace[Len(trace)] = Ev("arm", 0)
    /\ shell = "crashed"

\* ------------------------------------------------------------ C5
IsBlank(s) == \A k \in 1..Len(s) : s[k] \in Whitespace

BlankDetect ==
    /\ lastCmd # None
    /\ lastCmd[1].name = "detect"
    /\ IsBlank(lastCmd[1].arg)

\* C5: detect with a missing, empty or whitespace-only path prints an error
\* and does nothing else: no model call, no report, no vehicle-link call, no
\* exception, and the command loop goes on to the next command.
C5_BlankPathOnlyPrints ==
    BlankDetect =>
        /\ trace = << Ev("print_provide_path", 0) >>
        /\ report = None
        /\ pc = "idle"
        /\ exc = "none"
        /\ shell = "prompt"
        /\ nCmds < MaxCmds => (ENABLED DoDetect /\ ENABLED DoExit)

\* a whitespace-only path has been answered and the shell is at its prompt
C5_Witness ==
    /\ lastCmd = Some([name |-> "detect", arg |-> <<"\t", " ">>])
    /\ trace = << Ev("print_provide_path", 0) >>
    /\ shell = "prompt"
    /\ nCmds < MaxCmds
    /\ ENABLED DoExit

\* ------------------------------------------------------------ C6
InFlight == pc \notin {"idle", "raised"}

\* C6: at most one invocation is in flight: from the start of a detect
\* command the shell accepts no command, exit included, until the
\* invocation is through its detection, its report, its vehicle-link calls
\* and its 10-second pause.
C6_OneInvocationAtATime ==
    /\ [](InFlight => shell = "running")
    /\ [](shell = "running" => pc # "idle")
    /\ []((pc = "return" /\ ~NoLinkCall) => trace[Len(trace)] = Ev("sleep", 10))
    /\ [][nCmds' # nCmds => (~InFlight /\ shell = "prompt")]_vars
    /\ [][(shell = "running" /\ shell' = "prompt") => (pc = "return" /\ pc' = "idle")]_vars

\* a second invocation is running, the first one having paused and returned
C6_Witness ==
    /\ nCmds = 2
    /\ shell = "running"
    /\ pc = "takeoff_sleep"
    /\ Issued("takeoff")

\* ------------------------------------------------------------ C7
Ready ==
    /\ startup = << "connecting", "connected", "position_lock" >>
    /\ state = Some([is_connected |-> TRUE])
    /\ health = Some([is_global_position_ok |-> TRUE, is_home_position_ok |-> TRUE])

\* C7: the shell takes its first command only after connect has been
\* called, then a connection-state sample has said connected, then a health
\* sample has had global-position ok and home-position ok; nothing but such
\* a sample ends either wait, so without one no command is ever processed.
C7_CommandsOnlyWhenReady ==
    /\ []((nCmds > 0 \/ shell \in {"prompt", "running", "exited"}) => Ready)
    /\ [](state # None => startup # <<>>)
    /\ [](health # None => state = Some([is_connected |-> TRUE]))
    /\ [][(shell = "wait_connection" /\ shell' # shell)
              => state' = Some([is_connected |-> TRUE])]_vars
    /\ [][(shell = "wait_health" /\ shell' # shell)
              => (health'[1].is_global_position_ok /\ health'[1].is_home_position_ok)]_vars

\* the first command is being processed
C7_Witness ==
    /\ nCmds = 1
    /\ shell = "running"
    /\ Ready

\* ------------------------------------------------------------ C9
TakeoffCalls ==
    << Ev("arm", 0), Ev("set_takeoff_altitude", 10), Ev("takeoff", 0), Ev("sleep", 10) >>

LandCalls == << Ev("land", 0), Ev("sleep", 10) >>

Expected(c) ==
    CASE c = "Takeoff" -> TakeoffCalls
      [] c = "Land" -> LandCalls
      [] OTHER -> <<>>

IsPrefix(a, b) == Len(a) <= Len(b) /\ SubSeq(b, 1, Len(a)) = a

\* a detect invocation with a path has ended
Ended ==
    /\ lastCmd # None
    /\ lastCmd[1].name = "detect"
    /\ ~IsBlank(lastCmd[1].arg)
    /\ pc \in {"idle", "raised"}

\* C9 as stated: every detect invocation issues the whole call sequence of
\* its command.
C9_AsStated == Ended => LinkTrace = Expected(command)

\* C9, amended: the vehicle-link calls of a detect invocation are a prefix
\* of exactly one of three sequences: arm, set_takeoff_altitude(10),
\* takeoff, 10-second pause for Takeoff; land, 10-second pause for Land;
\* nothing for None.  The sequence is whole when no call raises; a call
\* that raises is the last event of the invocation.  No invocation issues
\* both a takeoff and a land.
C9_OneCallSequence ==
    /\ IsPrefix(LinkTrace, Expected(command))
    /\ ~(Issued("takeoff") /\ Issued("land"))
    /\ ~(Issued("arm") /\ Issued("land"))
    /\ (Ended /\ exc = "none") => LinkTrace = Expected(command)
    /\ (Ended /\ exc \in LinkOps) =>
           /\ LinkTrace # <<>>
           /\ LinkTrace[Len(LinkTrace)].op = exc
           /\ trace[Len(trace)].op = exc

\* a whole takeoff sequence has been issued and the invocation has returned
C9_Witness ==
    /\ Ended
    /\ exc = "none"
    /\ command = "Takeoff"
    /\ LinkTrace = TakeoffCalls

====
